---- MODULE Spec2Model ----
(***************************************************************************)
(* Model of the automated trading core of the Trading_app backend:         *)
(*   apps/backend/src/services/automated_trading.py  (RiskManager,         *)
(*                                           AutomatedTradingService)      *)
(*   apps/backend/src/services/llm_service.py        (LLMService)          *)
(*   apps/backend/src/services/realtime_data_service.py                    *)
(*                                           (RealTimeDataService)         *)
(*                                                                         *)
(* Time is an integer clock `now`; one tick is 15min / CooldownTicks.      *)
(* Money is in whole account units; sizes and quantities, which the code   *)
(* computes in floating point, are exact rationals <<numerator,            *)
(* denominator>>.  A Python dict is a function whose DOMAIN is its key set. *)
(* A decision-loop invocation is an asyncio task: it runs up to its one    *)
(* real suspension point (the HTTP call of LLMService._call_ollama) in one *)
(* step and from the reply to its end in a second step; every other await  *)
(* of the coroutine awaits code that never yields to the event loop.       *)
(***************************************************************************)
EXTENDS Integers, Sequences, FiniteSets, TLC

VARIABLES
    now,                  \* the clock (datetime.utcnow / date.today), in ticks
    weekday0,             \* weekday of day 0 (0 = Monday), fixed
    enable_live_trading,  \* settings.enable_live_trading, fixed per run
    binance_client,       \* TRUE iff Client(...) was constructed (else None)
    callback_registered,  \* _on_market_event is among the feed's callbacks
    is_running,
    trade_cooldown,       \* dict symbol -> cooldown_until
    daily_trades,         \* dict symbol -> [date, count]
    conversation_history, \* dict symbol -> [obj, items]: the list object and its pairs
    last_analysis,        \* the key set of the dict last_analysis
    rm,                   \* the RiskManager's fields
    tasks,                \* decision-loop invocations in flight
    nextId,               \* number of market events delivered so far, plus one
    nPnl,                 \* number of realized-P&L updates so far
    last,                 \* what the most recent handler step did (observation)
    running,              \* RealTimeDataService.running
    stream,               \* dict symbol -> position of its _handle_stream task
    ohlcv_cache,          \* dict symbol -> the closes of the cached candles, oldest first
    event_callbacks,      \* subscribers added by add_event_callback, besides _on_market_event
    feed_last,            \* what the most recent feed step did (observation)
    risk_last             \* what the most recent RiskManager call did (observation)

vars == <<now, weekday0, enable_live_trading, binance_client, callback_registered,
          is_running, trade_cooldown, daily_trades, conversation_history,
          last_analysis, rm, tasks, nextId, nPnl, last,
          running, stream, ohlcv_cache, event_callbacks, feed_last, risk_last>>

feed_vars == <<running, stream, ohlcv_cache, event_callbacks, feed_last>>

-----------------------------------------------------------------------------
(* Bounds of the model *)

MaxEvents == 2        \* market events delivered in one behaviour of Spec
MaxDecisionEvents == 1 \* market events delivered in one behaviour of SpecDecision
MaxDailyEvents == 6   \* market events delivered in one behaviour of SpecDaily
Horizon == 2          \* ticks the clock advances after construction
MaxPnlUpdates == 1    \* calls of update_realized_pnl
MaxCandles == 27      \* candles cached, over all symbols, in one behaviour of SpecStream
MaxSubscribers == 1   \* subscribers added by add_event_callback
MaxCloses == 28       \* longest close series of SpecIndicators
MaxRiskPnlUpdates == 3 \* calls of update_realized_pnl in one behaviour of SpecRisk
MaxRiskDays == 3      \* days the clock advances in one behaviour of SpecRisk
MaxRolloverEvents == 2 \* market events delivered in one behaviour of SpecRollover
RolloverHorizon == 3  \* ticks the clock advances in one behaviour of SpecRollover
MaxHistoryEvents == 3 \* market events delivered in one behaviour of SpecHistory
MaxReplayDeliveries == 2 \* deliveries of the one event in a behaviour of SpecReplay

(* Program constants *)

Symbols == {"BTCUSDT", "ETHUSDT"}
CooldownTicks == 3            \* timedelta(minutes=15); a tick is 5 minutes
DayTicks == 96 * CooldownTicks \* 24 hours
MaxDailyTrades == 5
HistoryLimit == 10
LLMTimeoutTicks == 1          \* timeout=60 (seconds): a call crosses at most one tick
InitialAccountValue == 10000
MaxDailyLossPct == 5          \* settings.max_daily_loss = 0.05
MaxDrawdownPct == 20
TradeRiskPct == 1
PositionCapPct == 20

Absent == "ABSENT"   \* the key is not in the JSON object
Null == "NULL"       \* JSON null (Python None) or another non-string, non-number value

-----------------------------------------------------------------------------
(* Python dicts *)

EmptyDict == [k \in {} |-> 0]

Put(d, k, v) == [x \in (DOMAIN d) \cup {k} |-> IF x = k THEN v ELSE d[x]]

(* dict.get(key, default) on a JSON object field *)
Get(v, default) == IF v = Absent THEN default ELSE v

(* Exact rationals <<n, d>> with d > 0, in lowest terms *)

Abs(x) == IF x < 0 THEN -x ELSE x

RECURSIVE GCD(_, _)
GCD(a, b) == IF b = 0 THEN a ELSE GCD(b, a % b)

Rat(n, d) ==
    LET g == GCD(Abs(n), Abs(d))
        s == IF d < 0 THEN -1 ELSE 1
    IN  <<(s * n) \div g, (s * d) \div g>>

RDiv(x, y) == Rat(x[1] * y[2], x[2] * y[1])

RLess(x, y) == x[1] * y[2] < y[1] * x[2]

RMin(x, y) == IF RLess(y, x) THEN y ELSE x

(* Calendar *)

Date(t) == t \div DayTicks

Weekday(d) == (d + weekday0) % 7

-----------------------------------------------------------------------------
(* RiskManager *)

daily_loss_limit == (MaxDailyLossPct * InitialAccountValue) \div 100

weekly_loss_limit == daily_loss_limit * 5

max_drawdown == (MaxDrawdownPct * InitialAccountValue) \div 100

RiskManagerInit(today) ==
    [account_value |-> InitialAccountValue,
     high_water_mark |-> InitialAccountValue,
     daily_loss |-> 0,
     weekly_loss |-> 0,
     last_reset |-> today]

(* reset_if_new_day that records the date and leaves the counters *)
reset_if_new_day_no_reset(r, today) ==
    IF today # r.last_reset
    THEN [r EXCEPT !.last_reset = today]
    ELSE r

reset_if_new_day(r, today) ==
    IF today # r.last_reset
    THEN [r EXCEPT !.daily_loss = 0,
                   !.weekly_loss = IF Weekday(today) = 0 THEN 0 ELSE @,
                   !.last_reset = today]
    ELSE r

(* update_account_value that never moves high_water_mark *)
update_account_value_no_mark(r, new_value) ==
    [r EXCEPT !.account_value = new_value]

update_account_value(r, new_value) ==
    [r EXCEPT !.account_value = new_value,
              !.high_water_mark = IF new_value > @ THEN new_value ELSE @]

(* check_loss_limits without its daily limit *)
check_loss_limits_weekly_only(r) == ~(r.weekly_loss < -weekly_loss_limit)

(* check_loss_limits, on a RiskManager whose rollover has been done *)
check_loss_limits(r) ==
    /\ ~(r.daily_loss < -daily_loss_limit)
    /\ ~(r.weekly_loss < -weekly_loss_limit)

check_drawdown(r) == ~(r.high_water_mark - r.account_value > max_drawdown)

(* can_trade: the RiskManager after the call, and the value returned *)
can_trade(r, today) ==
    LET r1 == reset_if_new_day(r, today)
    IN  [rm |-> r1, ok |-> check_loss_limits(r1) /\ check_drawdown(r1)]

(* calculate_position_size without the cap of 20% of the account *)
calculate_position_size_uncapped(r, stop_loss_pct) ==
    LET risk_per_trade == Rat(r.account_value * TradeRiskPct, 100)
    IN  IF stop_loss_pct[1] = 0
        THEN Rat(0, 1)
        ELSE RDiv(risk_per_trade, stop_loss_pct)

(* calculate_position_size without its guard on a stop-loss fraction of 0 *)
calculate_position_size_unguarded(r, stop_loss_pct) ==
    LET risk_per_trade == Rat(r.account_value * TradeRiskPct, 100)
        cap == Rat(r.account_value * PositionCapPct, 100)
    IN  IF stop_loss_pct[1] = 0
        THEN cap
        ELSE RMin(RDiv(risk_per_trade, stop_loss_pct), cap)

calculate_position_size(r, stop_loss_pct) ==
    LET risk_per_trade == Rat(r.account_value * TradeRiskPct, 100)
    IN  IF stop_loss_pct[1] = 0
        THEN Rat(0, 1)
        ELSE RMin(RDiv(risk_per_trade, stop_loss_pct),
                  Rat(r.account_value * PositionCapPct, 100))

update_realized_pnl(r, pnl, today) ==
    LET r1 == reset_if_new_day(r, today)
        r2 == [r1 EXCEPT !.daily_loss = @ + pnl, !.weekly_loss = @ + pnl]
    IN  update_account_value(r2, r2.account_value + pnl)

-----------------------------------------------------------------------------
(* LLMService: what the advisory collaborator can send back *)

Signals == {"BUY", "SELL", "HOLD", "STRONG_BUY", Absent}
Confidences == {"HIGH", "MEDIUM", "LOW", Absent, Null}
RiskLevels == {"HIGH", "MEDIUM", "LOW", Absent}

(* The stop-loss values offered for a price: no key, null, the price itself, *)
(* 2% below it and 10% below it.                                             *)
StopLosses(price) ==
    {[kind |-> Absent, v |-> 0], [kind |-> Null, v |-> 0]}
      \cup {[kind |-> "num", v |-> x] : x \in {price, (price * 98) \div 100, (price * 90) \div 100}}

NonDict ==
    [is_dict |-> FALSE, signal |-> Absent, confidence |-> Absent,
     risk_level |-> Absent, stop_loss |-> [kind |-> Absent, v |-> 0]]

(* Every value json.loads can return for the reply text *)
JsonValues(price) ==
    {NonDict} \cup
    [is_dict : {TRUE}, signal : Signals, confidence : Confidences,
     risk_level : RiskLevels, stop_loss : StopLosses(price)]

_default_analysis ==
    [is_dict |-> TRUE, signal |-> "HOLD", confidence |-> "LOW",
     risk_level |-> "HIGH", stop_loss |-> [kind |-> Null, v |-> 0]]

(* _call_ollama returns None on a timeout or an HTTP error, else the reply   *)
(* text, which is empty, not JSON, or JSON.                                  *)
FailedReplies == {[kind |-> k, value |-> NonDict] : k \in {"timeout", "http_error", "empty", "non_json"}}

Replies(price) == FailedReplies \cup {[kind |-> "json", value |-> v] : v \in JsonValues(price)}

(* analyze_market_data without the fallback to _default_analysis *)
analyze_market_data_no_fallback(reply) == reply.value

analyze_market_data(reply) ==
    IF reply.kind = "json" THEN reply.value ELSE _default_analysis

-----------------------------------------------------------------------------
(* AutomatedTradingService: the helpers of the decision loop *)

is_in_cooldown(symbol) ==
    /\ symbol \in DOMAIN trade_cooldown
    /\ now < trade_cooldown[symbol]

(* has_reached_daily_limit without the reset on a new date *)
has_reached_daily_limit_no_rollover(symbol) ==
    LET today == Date(now)
        d1 == IF symbol \notin DOMAIN daily_trades
              THEN Put(daily_trades, symbol, [date |-> today, count |-> 0])
              ELSE daily_trades
    IN  [daily_trades |-> d1, reached |-> d1[symbol].count >= MaxDailyTrades]

(* has_reached_daily_limit: the dict after the call, and the value returned *)
has_reached_daily_limit(symbol) ==
    LET today == Date(now)
        d1 == IF symbol \notin DOMAIN daily_trades
              THEN Put(daily_trades, symbol, [date |-> today, count |-> 0])
              ELSE daily_trades
        d2 == IF d1[symbol].date # today
              THEN Put(d1, symbol, [date |-> today, count |-> 0])
              ELSE d1
    IN  [daily_trades |-> d2, reached |-> d2[symbol].count >= MaxDailyTrades]

should_execute_trade(analysis) ==
    LET signal == Get(analysis.signal, "HOLD")
        confidence == Get(analysis.confidence, "LOW")
        risk_level == Get(analysis.risk_level, "HIGH")
    IN  /\ analysis.is_dict
        /\ signal # "HOLD"
        /\ confidence = "HIGH"
        /\ risk_level # "HIGH"
        /\ enable_live_trading

(* store_ai_decision: TRUE iff the row is committed.  A failure (the        *)
(* decision is no dict, its confidence has no lower(), the database fails)  *)
(* is caught and logged inside.                                             *)
store_ai_decision(analysis, db_ok) ==
    /\ analysis.is_dict
    /\ Get(analysis.confidence, "LOW") # Null
    /\ db_ok

(* The decision stored only when a trade is to follow *)
StoreDecision_trades_only(analysis, db_ok) ==
    IF should_execute_trade(analysis)
    THEN [calls |-> <<"store_ai_decision">>, persisted |-> store_ai_decision(analysis, db_ok)]
    ELSE [calls |-> <<>>, persisted |-> FALSE]

(* Line 159: await self.store_ai_decision(symbol, analysis, market_data) *)
StoreDecision(analysis, db_ok) ==
    [calls |-> <<"store_ai_decision">>, persisted |-> store_ai_decision(analysis, db_ok)]

(* Line 161: abs((price - analysis.get('stop_loss', price)) / price).       *)
(* It raises when the decision is no dict or the stop-loss is no number.    *)
stop_loss_pct(analysis, price) ==
    IF ~analysis.is_dict \/ analysis.stop_loss.kind = Null
    THEN [raised |-> TRUE, pct |-> Rat(0, 1)]
    ELSE LET sl == IF analysis.stop_loss.kind = Absent THEN price ELSE analysis.stop_loss.v
         IN  [raised |-> FALSE, pct |-> Rat(Abs(price - sl), price)]

(* place_trade: whether create_order is called, and the value returned.     *)
(* exchange is what create_order does: "ok", or it raises.                  *)
place_trade(exchange) ==
    IF ~binance_client
    THEN [called |-> FALSE, ok |-> FALSE]
    ELSE [called |-> TRUE, ok |-> exchange = "ok"]

ExchangeOutcomes == {"ok", "BinanceAPIException", "Exception"}

NoOrder == [submitted |-> FALSE, side |-> "", quantity |-> Rat(0, 1)]

Idle ==
    [op |-> "", id |-> 0, symbol |-> "", price |-> 0, gate |-> "", reply |-> "",
     analysis |-> NonDict, calls |-> <<>>, db_ok |-> FALSE, persisted |-> FALSE,
     order |-> NoOrder,
     success |-> FALSE, outcome |-> ""]

Last(seq, n) == IF Len(seq) <= n THEN seq ELSE SubSeq(seq, Len(seq) - n + 1, Len(seq))

(* The bookkeeping done whatever place_trade returned *)
RecordTrade_unconditional(symbol, success) ==
    [daily_trades |-> [daily_trades EXCEPT ![symbol].count = @ + 1],
     trade_cooldown |-> Put(trade_cooldown, symbol, now + CooldownTicks)]

(* Lines 374-376: `if success:` count += 1 and the cooldown is set *)
RecordTrade(symbol, success) ==
    IF success
    THEN [daily_trades |-> [daily_trades EXCEPT ![symbol].count = @ + 1],
          trade_cooldown |-> Put(trade_cooldown, symbol, now + CooldownTicks)]
    ELSE [daily_trades |-> daily_trades, trade_cooldown |-> trade_cooldown]

(* execute_ai_trade, from the RiskManager r left by the caller's can_trade *)
execute_ai_trade(symbol, analysis, price, position_size, r, exchange) ==
    LET quantity == RDiv(position_size, Rat(price, 1))
        ct == can_trade(r, Date(now))
        pt == place_trade(exchange)
        rec == RecordTrade(symbol, pt.ok)
    IN  IF ~ct.ok
        THEN [rm |-> ct.rm, calls |-> <<"can_trade">>, order |-> NoOrder,
              success |-> FALSE, daily_trades |-> daily_trades,
              trade_cooldown |-> trade_cooldown]
        ELSE [rm |-> ct.rm,
              calls |-> <<"can_trade", "place_trade">>
                          \o (IF pt.called THEN <<"create_order">> ELSE <<>>)
                          \o (IF pt.ok THEN <<"count", "cooldown", "alert">> ELSE <<>>),
              order |-> IF pt.called
                        THEN [submitted |-> TRUE,
                              side |-> Get(analysis.signal, "HOLD"),
                              quantity |-> quantity]
                        ELSE NoOrder,
              success |-> pt.ok,
              daily_trades |-> rec.daily_trades,
              trade_cooldown |-> rec.trade_cooldown]

(* analyze_and_trade_symbol from the advisory reply to its end (lines       *)
(* 153-175), the conversation history apart: the state it leaves and what   *)
(* it called, in order.                                                     *)
AfterReply(t, analysis, db_ok, exchange) ==
    LET slp == stop_loss_pct(analysis, t.price)
        position_size == calculate_position_size(rm, slp.pct)
        ct == can_trade(rm, Date(now))
        ex == execute_ai_trade(t.symbol, analysis, t.price, position_size, ct.rm, exchange)
        st == StoreDecision(analysis, db_ok)
        head == <<"history">> \o st.calls
        base == [rm |-> rm, daily_trades |-> daily_trades,
                 trade_cooldown |-> trade_cooldown, last_analysis |-> last_analysis,
                 persisted |-> st.persisted,
                 order |-> NoOrder, success |-> FALSE,
                 calls |-> head, outcome |-> "error_caught"]
    IN  IF slp.raised
        THEN base
        ELSE IF ~ct.ok
        THEN [base EXCEPT !.rm = ct.rm,
                          !.calls = head \o <<"calculate_position_size", "can_trade">>,
                          !.outcome = "risk_halt"]
        ELSE IF ~should_execute_trade(analysis)
        THEN [base EXCEPT !.rm = ct.rm,
                          !.last_analysis = @ \cup {t.symbol},
                          !.calls = head \o <<"calculate_position_size", "can_trade",
                                              "should_execute_trade">>,
                          !.outcome = "not_eligible"]
        ELSE [base EXCEPT !.rm = ex.rm,
                          !.daily_trades = ex.daily_trades,
                          !.trade_cooldown = ex.trade_cooldown,
                          !.last_analysis = @ \cup {t.symbol},
                          !.order = ex.order,
                          !.success = ex.success,
                          !.calls = head \o <<"calculate_position_size", "can_trade",
                                              "should_execute_trade">> \o ex.calls,
                          !.outcome = IF ex.success THEN "trade_ok" ELSE "trade_failed"]

-----------------------------------------------------------------------------
(* RealTimeDataService: the indicator engine.  A cache is the sequence of   *)
(* its candles' closes (whole numbers); computed values are exact rationals. *)

max_cache == 500
RsiPeriod == 14          \* _rsi(closes, period=14), and the guard len(closes) >= 14
MacdMinCloses == 26
FastWindow == 12
SlowWindow == 26
SignalWindow == 9
Ma20Window == 20
Ma50Window == 50
ReconnectDelay == 5      \* reconnect_delay, in seconds

RAdd(x, y) == Rat(x[1] * y[2] + y[1] * x[2], x[2] * y[2])

RSub(x, y) == Rat(x[1] * y[2] - y[1] * x[2], x[2] * y[2])

RECURSIVE SumRange(_, _, _)
SumRange(seq, lo, hi) ==
    IF lo > hi THEN 0
    ELSE IF lo = hi THEN seq[lo]
    ELSE LET mid == (lo + hi) \div 2
         IN  SumRange(seq, lo, mid) + SumRange(seq, mid + 1, hi)

Sum(seq) == SumRange(seq, 1, Len(seq))

(* seq[:n] and seq[-n:] of Python *)
First(seq, n) == IF Len(seq) <= n THEN seq ELSE SubSeq(seq, 1, n)

(* np.diff *)
Diff(closes) == [i \in 1..(Len(closes) - 1) |-> closes[i + 1] - closes[i]]

(* np.round(x, 2) of a value x >= 0: to the nearest hundredth, halves to even *)
Round2(x) ==
    LET q == (100 * x[1]) \div x[2]
        rem == (100 * x[1]) % x[2]
    IN  IF 2 * rem > x[2] THEN Rat(q + 1, 100)
        ELSE IF 2 * rem = x[2] THEN Rat(q + (q % 2), 100)
        ELSE Rat(q, 100)

(* _rsi: the seed is deltas[:period], the first `period` deltas of the cache *)
_rsi(closes) ==
    LET deltas == Diff(closes)
        seed == First(deltas, RsiPeriod)
        up == Rat(Sum([i \in DOMAIN seed |-> IF seed[i] > 0 THEN seed[i] ELSE 0]), RsiPeriod)
        down == Rat(-Sum([i \in DOMAIN seed |-> IF seed[i] < 0 THEN seed[i] ELSE 0]), RsiPeriod)
        rs == IF down[1] # 0 THEN RDiv(up, down) ELSE Rat(0, 1)
        rsi == RSub(Rat(100, 1), RDiv(Rat(100, 1), RAdd(Rat(1, 1), rs)))
    IN  Round2(rsi)

(* np.exp(np.linspace(-1., 0., window)), in hundredths; _ema divides the    *)
(* weights by their sum.                                                    *)
EmaWeights(window) ==
    IF window = SignalWindow
    THEN <<37, 42, 47, 54, 61, 69, 78, 88, 100>>
    ELSE IF window = FastWindow
    THEN <<37, 40, 44, 48, 53, 58, 64, 70, 76, 83, 91, 100>>
    ELSE <<37, 38, 40, 42, 43, 45, 47, 49, 51, 53, 55, 57, 60,
           62, 64, 67, 70, 73, 76, 79, 82, 85, 89, 92, 96, 100>>

(* An array of floats is [num, den]: the values num[i] / den *)
Scaled(closes) == [num |-> closes, den |-> 1]

(* np.convolve(data, weights, mode='full')[:len(data)], 1-based:            *)
(* a[k] = sum over j of weights[j] * data[k - j + 1]                        *)
Convolve(data, window) ==
    LET w == EmaWeights(window)
    IN  [num |-> [k \in 1..Len(data.num) |->
                     Sum([j \in 1..(IF k < window THEN k ELSE window) |->
                             w[j] * data.num[k - j + 1]])],
         den |-> Sum(w) * data.den]

(* _ema: a[:window] = a[window] reads the element of index `window`         *)
(* (0-based), which raises IndexError unless len(data) > window.            *)
_ema(data, window) ==
    LET a == Convolve(data, window)
    IN  IF Len(data.num) <= window
        THEN [raised |-> TRUE, a |-> Scaled(<<>>)]
        ELSE [raised |-> FALSE,
              a |-> [num |-> [k \in 1..Len(data.num) |->
                                 IF k <= window THEN a.num[window + 1] ELSE a.num[k]],
                     den |-> a.den]]

NoMacd == [raised |-> TRUE, macd |-> Rat(0, 1), signal |-> Rat(0, 1)]

(* _macd: (macd[-1], signal[-1]), or the IndexError of _ema *)
_macd(closes) ==
    LET ema12 == _ema(Scaled(closes), FastWindow)
        ema26 == _ema(Scaled(closes), SlowWindow)
        \* macd = ema12 - ema26
        macd == [num |-> [i \in DOMAIN closes |->
                             ema12.a.num[i] * ema26.a.den - ema26.a.num[i] * ema12.a.den],
                 den |-> ema12.a.den * ema26.a.den]
        n == Len(closes)
        \* self._ema(macd[-9:], 9) if len(macd) >= 9 else 0
        signal == _ema([num |-> Last(macd.num, SignalWindow), den |-> macd.den],
                       SignalWindow)
    IN  IF ema12.raised \/ ema26.raised
        THEN NoMacd
        ELSE IF n >= SignalWindow
        THEN IF signal.raised
             THEN NoMacd
             ELSE [raised |-> FALSE, macd |-> Rat(macd.num[n], macd.den),
                   signal |-> Rat(signal.a.num[Len(signal.a.num)], signal.a.den)]
        ELSE [raised |-> FALSE, macd |-> Rat(macd.num[n], macd.den),
              signal |-> Rat(0, 1)]

NoValue == [present |-> FALSE, v |-> Rat(0, 1)]

Value(x) == [present |-> TRUE, v |-> x]

(* np.mean(closes[-window:]) *)
Mean(closes, window) == Rat(Sum(Last(closes, window)), window)

(* _calculate_indicators: the dict returned (a key is present or not), or   *)
(* raised when _macd raises.                                                *)
_calculate_indicators(closes) ==
    LET n == Len(closes)
        m == IF n >= MacdMinCloses THEN _macd(closes) ELSE NoMacd
    IN  IF n >= MacdMinCloses /\ m.raised
        THEN [raised |-> TRUE, rsi |-> NoValue, macd |-> NoValue,
              macd_signal |-> NoValue, ma20 |-> NoValue, ma50 |-> NoValue]
        ELSE [raised |-> FALSE,
              rsi |-> IF n >= RsiPeriod THEN Value(_rsi(closes)) ELSE NoValue,
              macd |-> IF n >= MacdMinCloses THEN Value(m.macd) ELSE NoValue,
              macd_signal |-> IF n >= MacdMinCloses THEN Value(m.signal) ELSE NoValue,
              ma20 |-> IF n >= Ma20Window THEN Value(Mean(closes, Ma20Window)) ELSE NoValue,
              ma50 |-> IF n >= Ma50Window THEN Value(Mean(closes, Ma50Window)) ELSE NoValue]

-----------------------------------------------------------------------------
(* The state after construction *)

StartTime == DayTicks - 1

Prices == {50, 100}
PnlValues == {-600, 400}

(* Nothing observed yet of the feed *)
FeedIdle ==
    [op |-> "", symbol |-> "", outcome |-> "", cached |-> FALSE, persisted |-> FALSE,
     closes |-> <<>>, snapshot |-> _calculate_indicators(<<>>), invoked |-> <<>>,
     rested |-> TRUE, slept |-> 0]

(* The Monday of the week of day d *)
Monday(d) == d - Weekday(d)

(* Nothing observed yet of the RiskManager: no call of can_trade (and so no *)
(* day, or week by its Monday, in which it returned false on a breached     *)
(* daily, or weekly, limit), and no P&L realized in the week of the day of  *)
(* construction.                                                            *)
RiskIdle(today) ==
    [op |-> "", ok |-> FALSE, slp |-> Rat(0, 1), size |-> Rat(0, 1), pnl |-> 0,
     halt_daily |-> -1, halt_weekly |-> -1,
     week |-> Monday(today), week_pnl |-> 0]

Init ==
    /\ now = StartTime
    /\ weekday0 = 6
    /\ enable_live_trading \in BOOLEAN
    /\ binance_client \in BOOLEAN
    /\ callback_registered = FALSE
    /\ is_running = FALSE
    /\ trade_cooldown = EmptyDict
    /\ daily_trades = EmptyDict
    /\ conversation_history = [s \in Symbols |-> [obj |-> 0, items |-> <<>>]]
    /\ last_analysis = {}
    /\ rm = RiskManagerInit(Date(StartTime))
    /\ tasks = {}
    /\ nextId = 1
    /\ nPnl = 0
    /\ last = Idle
    /\ running = FALSE
    /\ stream = [s \in Symbols |-> [pc |-> "idle", rested |-> TRUE]]
    /\ ohlcv_cache = [s \in Symbols |-> <<>>]
    /\ event_callbacks = 0
    /\ feed_last = FeedIdle
    /\ risk_last = RiskIdle(Date(StartTime))

-----------------------------------------------------------------------------
(* The operations *)

(* asyncio.create_task puts the task's first step on the event loop's ready  *)
(* queue, which the loop runs, in order, before it polls for I/O again: a    *)
(* created task reaches its first await before any reply, request or later   *)
(* message is handled.  (A step queued before it changes nothing the created *)
(* task has read, so it is the same as that step taken before the creation.) *)
NoneScheduled == \A t \in tasks : t.pc # "scheduled"

(* RealTimeDataService.start: one _handle_stream task per symbol, each at   *)
(* the top of its loop.                                                     *)
start == [s \in Symbols |-> [pc |-> "subscribing", rested |-> TRUE]]

(* start_realtime_trading, called once at startup (main.py) *)
StartRealtimeTrading ==
    /\ ~callback_registered
    /\ is_running' = TRUE
    /\ callback_registered' = TRUE
    /\ last' = Idle
    \* await self.realtime_service.start()
    /\ running' = TRUE
    /\ stream' = start
    /\ UNCHANGED <<now, weekday0, enable_live_trading, binance_client, trade_cooldown,
                   daily_trades, conversation_history, last_analysis, rm, tasks,
                   nextId, nPnl,
                   ohlcv_cache, event_callbacks, feed_last, risk_last>>

(* stop_monitoring *)
StopMonitoring ==
    /\ NoneScheduled
    /\ is_running
    /\ is_running' = FALSE
    /\ last' = Idle
    /\ UNCHANGED <<now, weekday0, enable_live_trading, binance_client,
                   callback_registered, trade_cooldown, daily_trades,
                   conversation_history, last_analysis, rm, tasks, nextId, nPnl,
                   feed_vars, risk_last>>

(* _on_market_event: asyncio.create_task(analyze_and_trade_symbol(...)) *)
OnMarketEvent(symbol, price, max_events) ==
    /\ NoneScheduled
    /\ callback_registered
    /\ nextId <= max_events
    /\ tasks' = tasks \cup {[id |-> nextId, symbol |-> symbol, price |-> price,
                            pc |-> "scheduled", href |-> 0, hist |-> <<>>, age |-> 0]}
    /\ nextId' = nextId + 1
    /\ last' = Idle
    /\ UNCHANGED <<now, weekday0, enable_live_trading, binance_client,
                   callback_registered, is_running, trade_cooldown, daily_trades,
                   conversation_history, last_analysis, rm, nPnl,
                   feed_vars, risk_last>>

(* Line 144: 'rsi': event['indicators'].get('rsi', 50) *)
market_data_rsi(indicators) ==
    IF indicators.rsi.present THEN indicators.rsi.v ELSE Rat(50, 1)

(* analyze_and_trade_symbol up to the await of the advisory call (lines 130-152) *)
AnalyzeStart(t) ==
    LET lim == has_reached_daily_limit(t.symbol)
        gate == IF ~is_running THEN "stopped"
                ELSE IF is_in_cooldown(t.symbol) THEN "cooldown"
                ELSE IF lim.reached THEN "daily_limit"
                ELSE "pass"
        h == conversation_history[t.symbol]
    IN  /\ t \in tasks
        /\ t.pc = "scheduled"
        /\ daily_trades' = IF gate \in {"daily_limit", "pass"}
                           THEN lim.daily_trades ELSE daily_trades
        /\ tasks' = IF gate = "pass"
                    THEN (tasks \ {t}) \cup
                         {[t EXCEPT !.pc = "awaiting", !.href = h.obj, !.hist = h.items]}
                    ELSE tasks \ {t}
        /\ last' = [Idle EXCEPT !.op = "AnalyzeStart", !.id = t.id,
                                !.symbol = t.symbol, !.price = t.price, !.gate = gate]
        /\ UNCHANGED <<now, weekday0, enable_live_trading, binance_client,
                       callback_registered, is_running, trade_cooldown,
                       conversation_history, last_analysis, rm, nextId, nPnl,
                   feed_vars, risk_last>>

(* analyze_and_trade_symbol from the advisory reply to its end (lines 152-175) *)
LLMRespond(t, reply, db_ok, exchange) ==
    LET analysis == analyze_market_data(reply)
        r == AfterReply(t, analysis, db_ok, exchange)
        \* history.append((prompt, ai_response)) changes the list object the
        \* task holds, which other suspended tasks may hold too
        grown == Append(t.hist, t.id)
    IN  /\ NoneScheduled
        /\ t \in tasks
        /\ t.pc = "awaiting"
        /\ tasks' = {IF u.pc = "awaiting" /\ u.symbol = t.symbol /\ u.href = t.href
                     THEN [u EXCEPT !.hist = grown] ELSE u : u \in tasks \ {t}}
        /\ conversation_history' =
               [conversation_history EXCEPT
                   ![t.symbol] = [obj |-> t.id, items |-> Last(grown, HistoryLimit)]]
        /\ rm' = r.rm
        /\ daily_trades' = r.daily_trades
        /\ trade_cooldown' = r.trade_cooldown
        /\ last_analysis' = r.last_analysis
        /\ last' = [op |-> "LLMRespond", id |-> t.id, symbol |-> t.symbol,
                    price |-> t.price, gate |-> "pass", reply |-> reply.kind,
                    analysis |-> analysis, calls |-> r.calls, db_ok |-> db_ok,
                    persisted |-> r.persisted, order |-> r.order,
                    success |-> r.success, outcome |-> r.outcome]
        /\ UNCHANGED <<now, weekday0, enable_live_trading, binance_client,
                       callback_registered, is_running, nextId, nPnl,
                   feed_vars, risk_last>>

(* settings.trading_pairs_list, in the order of the setting *)
trading_pairs_list == <<"BTCUSDT", "ETHUSDT">>

(* The gates of analyze_and_trade_symbol (lines 131-137) *)
PollGate(symbol) ==
    IF ~is_running THEN "stopped"
    ELSE IF is_in_cooldown(symbol) THEN "cooldown"
    ELSE IF has_reached_daily_limit(symbol).reached THEN "daily_limit"
    ELSE "pass"

(* analyze_and_trade_symbol(symbol, {}), as monitor_and_trade calls it: what *)
(* it does, in order.  Past the gates, line 141 reads event['ohlcv'] of the *)
(* empty dict: KeyError, caught and logged at lines 174-175, before the     *)
(* advisory call of line 152 and everything after it.                       *)
PollCalls(symbol) ==
    IF PollGate(symbol) = "pass" THEN <<"pass", "KeyError">> ELSE <<PollGate(symbol)>>

(* start_monitoring, as the task app.py creates for it runs it: the flag is *)
(* set and the loop begins, unless the service is already running.          *)
StartMonitoring ==
    /\ NoneScheduled
    /\ ~is_running
    /\ is_running' = TRUE
    /\ last' = Idle
    /\ UNCHANGED <<now, weekday0, enable_live_trading, binance_client,
                   callback_registered, trade_cooldown, daily_trades,
                   conversation_history, last_analysis, rm, tasks, nextId, nPnl,
                   feed_vars, risk_last>>

(* One cycle of the loop of start_monitoring: monitor_and_trade, which      *)
(* awaits analyze_and_trade_symbol(symbol, {}) for each pair in turn; none  *)
(* of them reaches a suspension point, so the cycle is one step.            *)
MonitorAndTrade ==
    LET checked == {trading_pairs_list[k] : k \in DOMAIN trading_pairs_list}
        counted == {s \in checked : PollGate(s) \in {"pass", "daily_limit"}}
    IN  /\ NoneScheduled
        /\ is_running
        /\ daily_trades' =
               [s \in (DOMAIN daily_trades) \cup counted |->
                   IF s \in counted THEN has_reached_daily_limit(s).daily_trades[s]
                   ELSE daily_trades[s]]
        /\ last' = [Idle EXCEPT !.op = "monitor_and_trade",
                                !.calls = PollCalls(trading_pairs_list[1])
                                          \o PollCalls(trading_pairs_list[2]),
                                !.outcome = IF \E s \in checked : PollGate(s) = "pass"
                                            THEN "error_caught" ELSE ""]
        /\ UNCHANGED <<now, weekday0, enable_live_trading, binance_client,
                       callback_registered, is_running, trade_cooldown,
                       conversation_history, last_analysis, rm, tasks, nextId, nPnl,
                       feed_vars, risk_last>>

(* The clock advances; a suspended advisory call ends within its timeout *)
Tick ==
    /\ NoneScheduled
    /\ now < StartTime + Horizon
    /\ \A t \in tasks : t.age < LLMTimeoutTicks
    /\ now' = now + 1
    /\ tasks' = {[t EXCEPT !.age = @ + 1] : t \in tasks}
    /\ last' = Idle
    /\ UNCHANGED <<weekday0, enable_live_trading, binance_client, callback_registered,
                   is_running, trade_cooldown, daily_trades, conversation_history,
                   last_analysis, rm, nextId, nPnl,
                   feed_vars, risk_last>>

(* The clock advances, up to a horizon of its own *)
TickWithin(horizon) ==
    /\ NoneScheduled
    /\ now < StartTime + horizon
    /\ \A t \in tasks : t.age < LLMTimeoutTicks
    /\ now' = now + 1
    /\ tasks' = {[t EXCEPT !.age = @ + 1] : t \in tasks}
    /\ last' = Idle
    /\ UNCHANGED <<weekday0, enable_live_trading, binance_client, callback_registered,
                   is_running, trade_cooldown, daily_trades, conversation_history,
                   last_analysis, rm, nextId, nPnl,
                   running, stream, ohlcv_cache, event_callbacks, feed_last, risk_last>>

(* RiskManager.update_realized_pnl *)
UpdateRealizedPnl(pnl) ==
    /\ NoneScheduled
    /\ nPnl < MaxPnlUpdates
    /\ rm' = update_realized_pnl(rm, pnl, Date(now))
    /\ nPnl' = nPnl + 1
    /\ last' = Idle
    /\ UNCHANGED <<now, weekday0, enable_live_trading, binance_client,
                   callback_registered, is_running, trade_cooldown, daily_trades,
                   conversation_history, last_analysis, tasks, nextId,
                   feed_vars, risk_last>>

-----------------------------------------------------------------------------
(* RealTimeDataService: the feed *)

trading_vars == <<now, weekday0, enable_live_trading, binance_client,
                  callback_registered, is_running, trade_cooldown, daily_trades,
                  conversation_history, last_analysis, rm, nPnl, last>>

(* add_event_callback, by a subscriber other than the trading service *)
AddEventCallback ==
    /\ event_callbacks < MaxSubscribers
    /\ event_callbacks' = event_callbacks + 1
    /\ feed_last' = FeedIdle
    /\ UNCHANGED <<trading_vars, tasks, nextId, running, stream, ohlcv_cache, risk_last>>

(* RealTimeDataService.start, called on its own *)
RealtimeStart ==
    /\ ~running
    /\ \A s \in Symbols : stream[s].pc = "idle"
    /\ running' = TRUE
    /\ stream' = start
    /\ feed_last' = FeedIdle
    /\ UNCHANGED <<trading_vars, tasks, nextId, ohlcv_cache, event_callbacks, risk_last>>

(* stop that clears the flag and cancels no task *)
RealtimeStop_no_cancel ==
    /\ NoneScheduled
    /\ running
    /\ running' = FALSE
    /\ stream' = stream
    /\ feed_last' = [FeedIdle EXCEPT !.op = "stop",
                                     !.outcome = IF \E s \in Symbols : stream[s].pc = "backoff"
                                                 THEN "in_backoff" ELSE "cancelled"]
    /\ UNCHANGED <<trading_vars, tasks, nextId, ohlcv_cache, event_callbacks, risk_last>>

(* RealTimeDataService.stop: running = False and every task is cancelled.   *)
(* A cancelled task gets CancelledError at the await it is suspended on     *)
(* (the stream's next message, or the sleep of the backoff), which          *)
(* `except Exception` does not catch: it runs no further line of the loop.  *)
(* Observed: whether a loop was in its backoff when stop was called.        *)
RealtimeStop ==
    /\ NoneScheduled
    /\ running
    /\ running' = FALSE
    /\ stream' = [s \in Symbols |-> [stream[s] EXCEPT !.pc = "cancelled"]]
    /\ feed_last' = [FeedIdle EXCEPT !.op = "stop",
                                     !.outcome = IF \E s \in Symbols : stream[s].pc = "backoff"
                                                 THEN "in_backoff" ELSE "cancelled"]
    /\ UNCHANGED <<trading_vars, tasks, nextId, ohlcv_cache, event_callbacks, risk_last>>

(* _handle_stream at the top of its loop: `while self.running:` and then    *)
(* `async with stream as s:`, which opens the subscription or raises.       *)
Subscribe(symbol, opened) ==
    /\ NoneScheduled
    /\ stream[symbol].pc = "subscribing"
    /\ stream' = [stream EXCEPT ![symbol] =
                     IF ~running THEN [pc |-> "done", rested |-> @.rested]
                     ELSE IF opened THEN [pc |-> "listening", rested |-> TRUE]
                     ELSE [pc |-> "backoff", rested |-> FALSE]]
    /\ feed_last' = [FeedIdle EXCEPT !.op = "subscribe", !.symbol = symbol,
                                     !.outcome = IF ~running THEN "exit"
                                                 ELSE IF opened THEN "opened" ELSE "raised",
                                     !.rested = stream[symbol].rested]
    /\ UNCHANGED <<trading_vars, tasks, nextId, running, ohlcv_cache, event_callbacks,
                   risk_last>>

(* cache.append(ohlcv) and, beyond max_cache, cache.pop(0) *)
Cached(cache, close) ==
    LET grown == Append(cache, close)
    IN  IF Len(grown) > max_cache THEN Tail(grown) ELSE grown

(* The closes a symbol's next candle can have: a market that rises *)
KlineCloses(cache) == IF cache = <<>> THEN {100} ELSE {cache[Len(cache)] + 1}

RECURSIVE CandlesCached(_)
CandlesCached(S) ==
    IF S = {} THEN 0
    ELSE LET s == CHOOSE x \in S : TRUE
         IN  Len(ohlcv_cache[s]) + CandlesCached(S \ {s})

(* A kline message arrives on a symbol's stream: _handle_stream's           *)
(* `async for` body, that is _process_kline_msg (lines 62-88), and, when it *)
(* raises, the except clause of _handle_stream.  db_ok: the candle's row is *)
(* committed (else the failure is logged inside _store_market_data).        *)
KlineMsg(symbol, close, db_ok) ==
    LET cache == Cached(ohlcv_cache[symbol], close)
        indicators == _calculate_indicators(cache)
    IN  /\ NoneScheduled
        /\ running
        /\ stream[symbol].pc = "listening"
        /\ CandlesCached(Symbols) < MaxCandles
        /\ ohlcv_cache' = [ohlcv_cache EXCEPT ![symbol] = cache]
        /\ stream' = IF indicators.raised
                     THEN [stream EXCEPT ![symbol] = [pc |-> "backoff", rested |-> FALSE]]
                     ELSE stream
        \* for cb in self.event_callbacks: cb(event); _on_market_event creates a task
        /\ tasks' = IF ~indicators.raised /\ callback_registered
                    THEN tasks \cup {[id |-> nextId, symbol |-> symbol, price |-> close,
                                      pc |-> "scheduled", href |-> 0, hist |-> <<>>,
                                      age |-> 0]}
                    ELSE tasks
        /\ nextId' = IF ~indicators.raised /\ callback_registered
                     THEN nextId + 1 ELSE nextId
        /\ feed_last' = [FeedIdle EXCEPT
                            !.op = "kline", !.symbol = symbol,
                            !.outcome = IF indicators.raised THEN "raised" ELSE "delivered",
                            !.cached = TRUE, !.persisted = db_ok,
                            !.closes = cache, !.snapshot = indicators,
                            !.invoked = IF indicators.raised
                                        THEN [i \in 1..event_callbacks |-> 0]
                                        ELSE [i \in 1..event_callbacks |-> 1]]
        /\ UNCHANGED <<trading_vars, running, event_callbacks, risk_last>>

(* Another message arrives: one whose 'e' is not 'kline' is ignored (line   *)
(* 60); a kline message without its fields, or with fields that are no     *)
(* numbers, raises in lines 62-72.                                          *)
OtherMsg(symbol, kind) ==
    /\ NoneScheduled
    /\ running
    /\ stream[symbol].pc = "listening"
    /\ stream' = IF kind = "malformed"
                 THEN [stream EXCEPT ![symbol] = [pc |-> "backoff", rested |-> FALSE]]
                 ELSE stream
    /\ feed_last' = [FeedIdle EXCEPT !.op = "message", !.symbol = symbol,
                                     !.outcome = IF kind = "malformed" THEN "raised"
                                                 ELSE "ignored"]
    /\ UNCHANGED <<trading_vars, tasks, nextId, running, ohlcv_cache, event_callbacks,
                   risk_last>>

(* A failure of one stream that takes every stream into the backoff *)
SessionEnds_all(symbol, how) ==
    /\ NoneScheduled
    /\ running
    /\ stream[symbol].pc = "listening"
    /\ stream' = [s \in Symbols |-> [pc |-> "backoff", rested |-> FALSE]]
    /\ feed_last' = [FeedIdle EXCEPT !.op = "session_end", !.symbol = symbol,
                                     !.outcome = how]
    /\ UNCHANGED <<trading_vars, tasks, nextId, running, ohlcv_cache, event_callbacks,
                   risk_last>>

(* The stream session ends: its iterator raises (a disconnect), which the   *)
(* except clause catches, or it is exhausted and the `async for` and the    *)
(* `async with` are left normally, back to the top of the loop.             *)
SessionEnds(symbol, how) ==
    /\ NoneScheduled
    /\ running
    /\ stream[symbol].pc = "listening"
    /\ stream' = [stream EXCEPT ![symbol] =
                     IF how = "raised" THEN [pc |-> "backoff", rested |-> FALSE]
                     ELSE [pc |-> "subscribing", rested |-> FALSE]]
    /\ feed_last' = [FeedIdle EXCEPT !.op = "session_end", !.symbol = symbol,
                                     !.outcome = how]
    /\ UNCHANGED <<trading_vars, tasks, nextId, running, ohlcv_cache, event_callbacks,
                   risk_last>>

(* await asyncio.sleep(reconnect_delay) returns *)
BackoffDone(symbol) ==
    /\ NoneScheduled
    /\ stream[symbol].pc = "backoff"
    /\ stream' = [stream EXCEPT ![symbol] = [pc |-> "subscribing", rested |-> TRUE]]
    /\ feed_last' = [FeedIdle EXCEPT !.op = "backoff_done", !.symbol = symbol,
                                     !.slept = ReconnectDelay]
    /\ UNCHANGED <<trading_vars, tasks, nextId, running, ohlcv_cache, event_callbacks,
                   risk_last>>

(* _calculate_indicators applied to a cache *)
CalculateIndicators(closes) ==
    /\ feed_last' = [FeedIdle EXCEPT !.op = "indicators", !.closes = closes,
                                     !.snapshot = _calculate_indicators(closes)]
    /\ UNCHANGED <<trading_vars, tasks, nextId, running, stream, ohlcv_cache,
                   event_callbacks, risk_last>>

-----------------------------------------------------------------------------
(* RiskManager: its public operations called one at a time *)

risk_unchanged == <<weekday0, enable_live_trading, binance_client, callback_registered,
                    is_running, trade_cooldown, daily_trades, conversation_history,
                    last_analysis, tasks, nextId, last, feed_vars>>

(* The observation of a call: what is remembered from earlier calls, and   *)
(* nothing yet of this one.                                                 *)
RiskCall(op) ==
    [risk_last EXCEPT !.op = op, !.ok = FALSE, !.slp = Rat(0, 1), !.size = Rat(0, 1),
                      !.pnl = 0]

(* can_trade() *)
CanTrade ==
    LET today == Date(now)
        ct == can_trade(rm, today)
    IN  /\ rm' = ct.rm
        /\ risk_last' = [RiskCall("can_trade") EXCEPT
                            !.ok = ct.ok,
                            !.halt_daily =
                                IF ct.rm.daily_loss < -daily_loss_limit THEN today ELSE @,
                            !.halt_weekly =
                                IF ct.rm.weekly_loss < -weekly_loss_limit
                                THEN Monday(today) ELSE @]
        /\ UNCHANGED <<now, nPnl, risk_unchanged>>

(* update_realized_pnl(pnl); observed beside it, the P&L realized since the *)
(* most recent Monday.                                                      *)
RealizePnl(pnl) ==
    LET today == Date(now)
    IN  /\ nPnl < MaxRiskPnlUpdates
        /\ rm' = update_realized_pnl(rm, pnl, today)
        /\ nPnl' = nPnl + 1
        /\ risk_last' = [RiskCall("update_realized_pnl") EXCEPT
                            !.pnl = pnl,
                            !.week = Monday(today),
                            !.week_pnl = IF risk_last.week = Monday(today)
                                         THEN @ + pnl ELSE pnl]
        /\ UNCHANGED <<now, risk_unchanged>>

(* update_account_value(new_value) *)
UpdateAccountValue(new_value) ==
    /\ rm' = update_account_value(rm, new_value)
    /\ risk_last' = RiskCall("update_account_value")
    /\ UNCHANGED <<now, nPnl, risk_unchanged>>

(* calculate_position_size(stop_loss_pct) *)
CalculatePositionSize(slp) ==
    /\ risk_last' = [RiskCall("calculate_position_size") EXCEPT
                        !.slp = slp, !.size = calculate_position_size(rm, slp)]
    /\ UNCHANGED <<now, rm, nPnl, risk_unchanged>>

(* A day passes *)
AdvanceDay ==
    /\ Date(now) < Date(StartTime) + MaxRiskDays
    /\ now' = now + DayTicks
    /\ risk_last' = RiskCall("")
    /\ UNCHANGED <<rm, nPnl, risk_unchanged>>

-----------------------------------------------------------------------------
(* Spec: the decision loop under every interleaving of market events,       *)
(* replies, clock ticks, stop requests and P&L updates, with the advisory   *)
(* either failing or recommending a trade.                                  *)

Decision(signal, confidence, risk_level, stop_loss) ==
    [is_dict |-> TRUE, signal |-> signal, confidence |-> confidence,
     risk_level |-> risk_level, stop_loss |-> [kind |-> "num", v |-> stop_loss]]

CoreReplies(price) ==
    {[kind |-> "timeout", value |-> NonDict],
     [kind |-> "json", value |-> Decision("BUY", "HIGH", "LOW", (price * 98) \div 100)]}

Next ==
    \/ StartRealtimeTrading
    \/ StopMonitoring
    \/ \E s \in Symbols : OnMarketEvent(s, 100, MaxEvents)
    \/ \E t \in tasks : AnalyzeStart(t)
    \/ \E t \in tasks : \E reply \in CoreReplies(t.price), exchange \in ExchangeOutcomes :
           LLMRespond(t, reply, TRUE, exchange)
    \/ Tick
    \/ UpdateRealizedPnl(-600)

Spec == Init /\ [][Next]_vars

(* SpecDecision: single decisions in full: every reply, price, database and *)
(* exchange outcome, with the clock standing still and each event arriving  *)
(* when no invocation is in flight.                                         *)

NextDecision ==
    \/ StartRealtimeTrading
    \/ StopMonitoring
    \/ tasks = {} /\ \E p \in Prices : OnMarketEvent("BTCUSDT", p, MaxDecisionEvents)
    \/ \E t \in tasks : AnalyzeStart(t)
    \/ \E t \in tasks : \E reply \in Replies(t.price), db_ok \in BOOLEAN,
                           exchange \in ExchangeOutcomes :
           LLMRespond(t, reply, db_ok, exchange)
    \/ \E pnl \in PnlValues : UpdateRealizedPnl(pnl)

SpecDecision == Init /\ [][NextDecision]_vars

(* SpecDaily: one symbol, live trading on, an advisory that recommends a    *)
(* trade on every event and an exchange that accepts every order.           *)

GoodBuy(price) == [kind |-> "json", value |-> Decision("BUY", "HIGH", "LOW", (price * 98) \div 100)]

InitDaily == Init /\ enable_live_trading /\ binance_client

NextDaily ==
    \/ StartRealtimeTrading
    \/ OnMarketEvent("BTCUSDT", 100, MaxDailyEvents)
    \/ \E t \in tasks : AnalyzeStart(t)
    \/ \E t \in tasks : LLMRespond(t, GoodBuy(t.price), TRUE, "ok")
    \/ Tick

SpecDaily == InitDaily /\ [][NextDaily]_vars

(* SpecStream: the feed on its own, with subscribers of its own: streams    *)
(* open, deliver candles and other messages, fail, end and are stopped.     *)

NextStream ==
    \/ AddEventCallback
    \/ RealtimeStart
    \/ RealtimeStop
    \/ \E s \in Symbols, opened \in BOOLEAN : Subscribe(s, opened)
    \/ \E s \in Symbols : \E close \in KlineCloses(ohlcv_cache[s]), db_ok \in BOOLEAN :
           KlineMsg(s, close, db_ok)
    \/ \E s \in Symbols, kind \in {"non_kline", "malformed"} : OtherMsg(s, kind)
    \/ \E s \in Symbols, how \in {"raised", "exhausted"} : SessionEnds(s, how)
    \/ \E s \in Symbols : BackoffDone(s)

SpecStream == InitDaily /\ [][NextStream]_vars

(* SpecIndicators: the indicator engine applied to close series of every    *)
(* length up to MaxCloses: rising, falling, flat, alternating, and falling  *)
(* for three candles before rising.                                         *)

Shapes == {"rising", "falling", "flat", "zigzag", "dip"}

Series(shape, n) ==
    [i \in 1..n |->
        100 + (IF shape = "rising" THEN i
               ELSE IF shape = "falling" THEN -i
               ELSE IF shape = "flat" THEN 0
               ELSE IF shape = "zigzag" THEN i % 2
               ELSE IF i <= 3 THEN -i ELSE i - 6)]

NextIndicators ==
    \E shape \in Shapes, n \in 1..MaxCloses : CalculateIndicators(Series(shape, n))

SpecIndicators == InitDaily /\ [][NextIndicators]_vars

(* SpecRisk: the RiskManager's operations in any order, over several days *)

RiskPnlValues == {-600, 400}
AccountValues == {7500, 11000}
StopLossPcts == {Rat(0, 1), Rat(1, 50), Rat(1, 10), Rat(1, 1)}

NextRisk ==
    \/ CanTrade
    \/ \E pnl \in RiskPnlValues : RealizePnl(pnl)
    \/ \E v \in AccountValues : UpdateAccountValue(v)
    \/ \E slp \in StopLossPcts : CalculatePositionSize(slp)
    \/ AdvanceDay

SpecRisk == InitDaily /\ [][NextRisk]_vars

(* SpecRollover: as SpecDaily, for every symbol, with the clock running     *)
(* through midnight to the end of a cooldown.                               *)

NextRollover ==
    \/ StartRealtimeTrading
    \/ \E s \in Symbols : OnMarketEvent(s, 100, MaxRolloverEvents)
    \/ \E t \in tasks : AnalyzeStart(t)
    \/ \E t \in tasks : LLMRespond(t, GoodBuy(t.price), TRUE, "ok")
    \/ TickWithin(RolloverHorizon)

SpecRollover == InitDaily /\ [][NextRollover]_vars

(* SpecHistory: one symbol whose events arrive at any pace, so that any     *)
(* number of invocations are suspended on the advisory call at once and     *)
(* their replies come back in any order.                                    *)

NextHistory ==
    \/ StartRealtimeTrading
    \/ OnMarketEvent("BTCUSDT", 100, MaxHistoryEvents)
    \/ \E t \in tasks : AnalyzeStart(t)
    \/ \E t \in tasks : \E reply \in CoreReplies(t.price) : LLMRespond(t, reply, TRUE, "ok")

SpecHistory == InitDaily /\ [][NextHistory]_vars

(* SpecReplay: one MarketEvent (one candle of BTCUSDT, close 100) handed to *)
(* _on_market_event more than once, the second time before or after the    *)
(* first invocation has ended.                                              *)

NextReplay ==
    \/ StartRealtimeTrading
    \/ OnMarketEvent("BTCUSDT", 100, MaxReplayDeliveries)
    \/ \E t \in tasks : AnalyzeStart(t)
    \/ \E t \in tasks : \E reply \in CoreReplies(t.price), db_ok \in BOOLEAN,
                           exchange \in ExchangeOutcomes :
           LLMRespond(t, reply, db_ok, exchange)
    \/ TickWithin(RolloverHorizon)

SpecReplay == InitDaily /\ [][NextReplay]_vars

(* SpecPolling: the polling loop on its own: started, cycling, stopped and  *)
(* started again, with the clock running through midnight.                  *)

NextPolling ==
    \/ StartMonitoring
    \/ MonitorAndTrade
    \/ StopMonitoring
    \/ TickWithin(RolloverHorizon)

SpecPolling == Init /\ [][NextPolling]_vars

-----------------------------------------------------------------------------
(* The claims *)

Responded == last.op = "LLMRespond"

Submitted == Responded /\ last.order.submitted

(* C1: after a successful trade on a symbol at time T, no order-submission  *)
(* call is made for that symbol before T + 15min (now < cooldown_until),    *)
(* under any interleaving of market events; an event at or after T + 15min  *)
(* passes the cooldown gate again.                                          *)
C1_CooldownGate ==
    [][\A s \in Symbols :
          /\ (last'.op = "LLMRespond" /\ last'.symbol = s /\ last'.order.submitted)
                => ~(s \in DOMAIN trade_cooldown /\ now < trade_cooldown[s])
          /\ (last'.op = "AnalyzeStart" /\ last'.symbol = s
                /\ s \in DOMAIN trade_cooldown /\ now >= trade_cooldown[s])
                => last'.gate # "cooldown"]_vars

(* C2: invocations of the decision loop for one symbol never overlap: an    *)
(* invocation reads the cooldown and daily-count gates only when no earlier *)
(* invocation for its symbol is still in flight.                            *)
C2_NoOverlap ==
    (last.op = "AnalyzeStart" /\ last.gate # "stopped")
      => \A t \in tasks :
            (t.symbol = last.symbol /\ t.pc = "awaiting") => t.id = last.id

(* C3: no order is submitted for a symbol whose daily count has reached     *)
(* max_daily_trades_per_symbol (5), and the count never exceeds 5.          *)
C3_DailyLimit ==
    [][\A s \in Symbols :
          (last'.op = "LLMRespond" /\ last'.symbol = s /\ last'.order.submitted)
            => /\ s \in DOMAIN daily_trades
               /\ daily_trades[s].count < 5
               /\ daily_trades'[s].count <= 5]_vars

(* The risk gate of the Risk Manager at a date: the day's (and, on a Monday, *)
(* the week's) loss counts as 0 once the date has advanced past last_reset. *)
RiskOpenAt(r, today) ==
    LET rolled == r.last_reset # today
        daily == IF rolled THEN 0 ELSE r.daily_loss
        weekly == IF rolled /\ Weekday(today) = 0 THEN 0 ELSE r.weekly_loss
    IN  /\ daily >= -daily_loss_limit
        /\ weekly >= -weekly_loss_limit
        /\ r.high_water_mark - r.account_value <= max_drawdown

(* C4: an order is submitted only if can_trade() is true at the moment of   *)
(* submission; when it is false the invocation ends with no order call and  *)
(* no change to the daily counts or the cooldowns.                          *)
C4_RiskGate ==
    [][last'.op = "LLMRespond" =>
          /\ last'.order.submitted => RiskOpenAt(rm, Date(now))
          /\ ~RiskOpenAt(rm, Date(now)) =>
                /\ ~last'.order.submitted
                /\ last'.outcome \in {"risk_halt", "error_caught"}
                /\ daily_trades' = daily_trades
                /\ trade_cooldown' = trade_cooldown]_vars

(* C4's case: the gate is closed for a decision that would have been traded *)
C4_Witness ==
    /\ Responded
    /\ last.outcome = "risk_halt"
    /\ last.analysis.signal = "BUY"
    /\ enable_live_trading
    /\ binance_client

(* C5: an order is submitted only if the signal is BUY or SELL, the         *)
(* confidence is HIGH, the risk level is not HIGH and live trading is on.   *)
C5_Eligibility ==
    Submitted =>
        /\ last.analysis.signal \in {"BUY", "SELL"}
        /\ last.analysis.confidence = "HIGH"
        /\ last.analysis.risk_level # "HIGH"
        /\ enable_live_trading

(* C6: a failed order submission (the exchange raises, or there is no       *)
(* client) leaves every daily count and cooldown as it was.                 *)
C6_FailureLeavesGates ==
    [][(last'.op = "LLMRespond" /\ last'.outcome = "trade_failed") =>
          /\ daily_trades' = daily_trades
          /\ trade_cooldown' = trade_cooldown]_vars

(* C6's case: the exchange refuses an order for a symbol traded before *)
C6_Witness ==
    /\ Responded
    /\ last.outcome = "trade_failed"
    /\ last.order.submitted
    /\ last.symbol \in DOMAIN trade_cooldown
    /\ daily_trades[last.symbol].count = 1

(* C7: when the advisory call times out, fails or returns no JSON, the      *)
(* decision used is HOLD / LOW confidence / HIGH risk, no order is          *)
(* submitted and the invocation ends normally.                              *)
C7_DegradedDefault ==
    (Responded /\ last.reply \in {"timeout", "http_error", "empty", "non_json"}) =>
        /\ last.analysis.is_dict
        /\ last.analysis.signal = "HOLD"
        /\ last.analysis.confidence = "LOW"
        /\ last.analysis.risk_level = "HIGH"
        /\ ~last.order.submitted
        /\ ~last.success
        /\ last.outcome \in {"error_caught", "risk_halt", "not_eligible"}

(* C7's case: the advisory call times out with live trading on *)
C7_Witness ==
    /\ Responded
    /\ last.reply = "timeout"
    /\ enable_live_trading
    /\ binance_client

CallIndex(call) == {i \in DOMAIN last.calls : last.calls[i] = call}

(* C8: for every invocation that has passed the gates, store_ai_decision is *)
(* called with the decision before the risk gate and the eligibility check, *)
(* whether or not a trade follows; a HOLD decision yields no order and is   *)
(* persisted (when the database accepts the row).                           *)
C8_DecisionPersisted ==
    Responded =>
        /\ Cardinality(CallIndex("store_ai_decision")) = 1
        /\ \A i \in CallIndex("store_ai_decision") :
              \A j \in DOMAIN last.calls :
                  last.calls[j] \in {"can_trade", "should_execute_trade",
                                     "place_trade", "create_order"} => i < j
        /\ (last.analysis.is_dict /\ last.analysis.signal = "HOLD") =>
              /\ ~last.order.submitted
              /\ (last.db_ok /\ last.analysis.confidence # Null) => last.persisted

(* C8's case: a HOLD decision, persisted, with nothing else against a trade *)
C8_Witness ==
    /\ Responded
    /\ last.reply = "json"
    /\ last.analysis.signal = "HOLD"
    /\ last.analysis.confidence = "HIGH"
    /\ last.analysis.risk_level = "LOW"
    /\ last.persisted
    /\ ~last.order.submitted
    /\ enable_live_trading
    /\ binance_client

(* C9: when the stop-loss fraction is 0 (the advisory omits the stop-loss   *)
(* or suggests the price itself), so that the position size is 0, no order  *)
(* is submitted.                                                            *)
C9_ZeroSizeNoTrade ==
    (Responded /\ last.analysis.is_dict
       /\ (\/ last.analysis.stop_loss.kind = Absent
           \/ (last.analysis.stop_loss.kind = "num"
                 /\ last.analysis.stop_loss.v = last.price)))
      => ~last.order.submitted

(* The scenario of C10: BUY / HIGH / LOW with the stop-loss 2% below the    *)
(* price, live trading on, an exchange client, account_value 10000 and no   *)
(* losses.                                                                  *)
C10_Scenario ==
    /\ Responded
    /\ last.reply = "json"
    /\ last.analysis = Decision("BUY", "HIGH", "LOW", (last.price * 98) \div 100)
    /\ enable_live_trading
    /\ binance_client
    /\ rm.account_value = 10000
    /\ rm.high_water_mark = 10000
    /\ rm.daily_loss = 0
    /\ rm.weekly_loss = 0

(* C10 as stated: exactly one order, of quantity positionSize / price with  *)
(* positionSize = 5.                                                        *)
C10_Original ==
    C10_Scenario =>
        /\ Cardinality(CallIndex("create_order")) = 1
        /\ last.order.submitted
        /\ last.order.side = "BUY"
        /\ last.order.quantity = Rat(5, last.price)

(* C10, amended: exactly one order, of quantity positionSize / price with   *)
(* positionSize = min(10000 * 0.01 / 0.02, 2000) = 2000.                    *)
C10_EndToEnd ==
    C10_Scenario =>
        /\ Cardinality(CallIndex("create_order")) = 1
        /\ last.order.submitted
        /\ last.order.side = "BUY"
        /\ last.order.quantity = Rat(2000, last.price)

(* C10's case: the scenario, at the price 50 *)
C10_Witness ==
    /\ C10_Scenario
    /\ last.price = 50
    /\ last.order.submitted

(* C11: every kline message handled while the service runs is appended to   *)
(* the symbol's cache, has its indicator snapshot computed, and has every   *)
(* registered subscriber invoked exactly once, at every cache length.       *)
C11_EveryCandleDelivered ==
    feed_last.op = "kline" =>
        /\ feed_last.cached
        /\ ~feed_last.snapshot.raised
        /\ feed_last.outcome = "delivered"
        /\ \A i \in DOMAIN feed_last.invoked : feed_last.invoked[i] = 1

(* C12: with fewer than 26 closes the snapshot has neither macd nor         *)
(* macd_signal; with 26 closes or more the computation succeeds and the     *)
(* snapshot has both.                                                       *)
C12_MacdFromTwentySix ==
    feed_last.op = "indicators" =>
        IF Len(feed_last.closes) < 26
        THEN /\ ~feed_last.snapshot.raised
             /\ ~feed_last.snapshot.macd.present
             /\ ~feed_last.snapshot.macd_signal.present
        ELSE /\ ~feed_last.snapshot.raised
             /\ feed_last.snapshot.macd.present
             /\ feed_last.snapshot.macd_signal.present

(* C13: for a series of at least 15 closes in which no close is below the   *)
(* one before it (no losses, average loss 0), the snapshot's RSI is 100.    *)
C13_RsiNoLosses ==
    (/\ feed_last.op = "indicators"
     /\ ~feed_last.snapshot.raised
     /\ Len(feed_last.closes) >= 15
     /\ \A i \in 1..(Len(feed_last.closes) - 1) :
            feed_last.closes[i + 1] >= feed_last.closes[i])
      => /\ feed_last.snapshot.rsi.present
         /\ feed_last.snapshot.rsi.v = <<100, 1>>

(* C14: can_trade() returns false when the day's loss is beyond the daily   *)
(* limit, and, with the weekly loss and the drawdown within their limits,   *)
(* returns true at the first call after the date has advanced, the daily    *)
(* loss being reset to 0.                                                   *)
C14_DailyHalt ==
    [][risk_last'.op = "can_trade" =>
          /\ (rm.last_reset = Date(now) /\ rm.daily_loss < -daily_loss_limit)
                => ~risk_last'.ok
          /\ (/\ rm.last_reset # Date(now)
              /\ rm.weekly_loss >= -weekly_loss_limit
              /\ rm.high_water_mark - rm.account_value <= max_drawdown)
                => (risk_last'.ok /\ rm'.daily_loss = 0)]_vars

(* C14's case: can_trade() returns true on the day after one on which it    *)
(* returned false for the daily limit.                                      *)
C14_Witness ==
    /\ risk_last.op = "can_trade"
    /\ risk_last.ok
    /\ risk_last.halt_daily = Date(StartTime)
    /\ Date(now) = Date(StartTime) + 1
    /\ rm.last_reset = Date(now)
    /\ rm.daily_loss = 0

(* C15: once can_trade() has returned false on a breached daily (weekly)    *)
(* limit, every later call on the same day (in the same week) returns       *)
(* false, whatever P&L is realized in between.                              *)
C15_MonotoneGate ==
    [][risk_last'.op = "can_trade" =>
          /\ risk_last.halt_daily = Date(now) => ~risk_last'.ok
          /\ risk_last.halt_weekly = Monday(Date(now)) => ~risk_last'.ok]_vars

(* C16: high_water_mark >= account_value before and after every operation, *)
(* and high_water_mark never decreases.                                     *)
C16_HighWaterMark ==
    [][/\ rm.high_water_mark >= rm.account_value
       /\ rm'.high_water_mark >= rm'.account_value
       /\ rm'.high_water_mark >= rm.high_water_mark]_vars

(* C16's case: a gain has raised the mark and a loss has left the account   *)
(* below it.                                                                *)
C16_Witness ==
    /\ risk_last.op = "update_realized_pnl"
    /\ risk_last.pnl < 0
    /\ rm.high_water_mark > InitialAccountValue
    /\ rm.account_value < rm.high_water_mark

(* C17: after every update of the realized P&L, weekly_loss is the P&L      *)
(* realized since the most recent Monday.                                   *)
C17_WeeklyReset ==
    risk_last.op = "update_realized_pnl" => rm.weekly_loss = risk_last.week_pnl

(* C18: calculate_position_size(f) is min(account_value * 0.01 / f,         *)
(* account_value * 0.2) for f # 0 and 0 for f = 0, and leaves the           *)
(* RiskManager as it was.                                                   *)
C18_PositionSize ==
    [][risk_last'.op = "calculate_position_size" =>
          LET f == risk_last'.slp
              size == risk_last'.size
              \* account_value * 0.01 / f = un / ud, account_value * 0.2 = cn / 100
              un == rm.account_value * f[2]
              ud == 100 * f[1]
              cn == rm.account_value * 20
          IN  /\ rm' = rm
              /\ f[1] = 0 => size = <<0, 1>>
              /\ f[1] # 0 =>
                    IF un * 100 <= cn * ud
                    THEN size[1] * ud = un * size[2]
                    ELSE size[1] * 100 = cn * size[2]]_vars

(* C18's case: a stop-loss fraction of 2%, for which the cap of 20% binds *)
C18_Witness ==
    /\ risk_last.op = "calculate_position_size"
    /\ risk_last.slp = <<1, 50>>
    /\ rm.account_value = 9400
    /\ risk_last.size = <<1880, 1>>

(* The daily-limit gate is evaluated for symbol s in this step *)
GateChecked(s) ==
    /\ last'.op = "AnalyzeStart"
    /\ last'.symbol = s
    /\ last'.gate \in {"pass", "daily_limit"}

(* C19: the first daily-limit check of a symbol on a new UTC date sets its  *)
(* count to 0 and records the date, whatever the count was; no other step   *)
(* resets the count or changes the date.                                    *)
C19_ResetOncePerDay ==
    [][\A s \in DOMAIN daily_trades :
          /\ s \in DOMAIN daily_trades'
          /\ GateChecked(s) =>
                IF daily_trades[s].date # Date(now)
                THEN daily_trades'[s] = [date |-> Date(now), count |-> 0]
                ELSE daily_trades'[s] = daily_trades[s]
          /\ ~GateChecked(s) =>
                /\ daily_trades'[s].date = daily_trades[s].date
                /\ daily_trades'[s].count >= daily_trades[s].count]_vars

(* C19's case: a symbol traded the day before passes the gate with its      *)
(* count back at 0.                                                         *)
C19_Witness ==
    /\ last.op = "AnalyzeStart"
    /\ last.gate = "pass"
    /\ last.symbol \in DOMAIN trade_cooldown
    /\ daily_trades[last.symbol] = [date |-> Date(StartTime) + 1, count |-> 0]

(* C20: while the service runs no stream loop has ended, and every          *)
(* resubscription after the end of a session comes after the backoff.       *)
C20_BackoffBeforeResubscribe ==
    /\ running => \A s \in Symbols : stream[s].pc # "done"
    /\ (feed_last.op = "subscribe" /\ feed_last.outcome \in {"opened", "raised"})
          => feed_last.rested

(* A step of symbol a's stream loop or message handling is taken *)
StreamStep(a) ==
    /\ feed_last'.symbol = a
    /\ feed_last'.op \in {"subscribe", "kline", "message", "session_end", "backoff_done"}

(* Symbol a's stream is failing: in its backoff, or back at the top of its  *)
(* loop after a session that ended.                                         *)
Failing(a) ==
    \/ stream[a].pc = "backoff"
    \/ stream[a].pc = "subscribing" /\ ~stream[a].rested

C22_StopTerminates ==
    [][/\ feed_last'.op = "stop" =>
            /\ ~running'
            /\ \A s \in Symbols : stream'[s].pc = "cancelled"
       /\ (~running /\ \E s \in Symbols : stream[s].pc # "idle") =>
            /\ stream' = stream
            /\ ohlcv_cache' = ohlcv_cache
            /\ tasks' = tasks
            /\ feed_last'.op \notin {"subscribe", "kline", "message", "backoff_done"}]_vars

(* C22's case: stop() was called with candles cached and a loop in backoff *)
C22_Witness ==
    /\ feed_last.op = "stop"
    /\ feed_last.outcome = "in_backoff"
    /\ ~running
    /\ \E s \in Symbols : ohlcv_cache[s] # <<>>

(* The pairs of a history *)
Pairs(items) == {items[k] : k \in DOMAIN items}

(* C23: a symbol's conversation history never holds more than 10 pairs, the *)
(* history handed to the advisory never holds more than 10 pairs, and each  *)
(* completed advisory call leaves the history as it was with the new pair   *)
(* after it, cut to the 10 most recent (the oldest dropped first).          *)
C23_HistoryBound ==
    [][/\ \A s \in Symbols : Len(conversation_history'[s].items) <= 10
       /\ (last'.op = "AnalyzeStart" /\ last'.gate = "pass") =>
             \A t \in tasks' : t.id = last'.id => Len(t.hist) <= 10
       /\ last'.op = "LLMRespond" =>
             LET before == conversation_history[last'.symbol].items
                 grown == Append(before, last'.id)
                 after == conversation_history'[last'.symbol].items
             IN  after = IF Len(grown) <= 10 THEN grown
                         ELSE SubSeq(grown, Len(grown) - 9, Len(grown))]_vars

(* C24: for one symbol the invocations take effect in the order in which    *)
(* their events arrived: when an invocation resumes from its advisory call  *)
(* (history, stored decision, order, daily count, cooldown), no invocation  *)
(* of an earlier event of the symbol is still waiting for its reply.        *)
C24_ArrivalOrder ==
    [][last'.op = "LLMRespond" =>
          \A u \in tasks' :
              (u.symbol = last'.symbol /\ u.pc = "awaiting") => u.id > last'.id]_vars

(* C25: the one event delivered twice leaves what it leaves delivered once: *)
(* at most one pair in the symbol's history and at most one trade counted.  *)
C25_Idempotent ==
    /\ Len(conversation_history["BTCUSDT"].items) <= 1
    /\ "BTCUSDT" \in DOMAIN daily_trades => daily_trades["BTCUSDT"].count <= 1

(* C30: a pair leaves a symbol's history only by being displaced: when the  *)
(* history is full of pairs appended after it.                              *)
C30_NoLostUpdate ==
    [][\A s \in Symbols :
          LET before == conversation_history[s].items
              after == conversation_history'[s].items
          IN  \A k \in DOMAIN before :
                  before[k] \notin Pairs(after) =>
                      /\ Len(after) = 10
                      /\ last'.op = "LLMRespond"
                      /\ Pairs(after) \subseteq
                            {before[m] : m \in (k + 1)..Len(before)} \cup {last'.id}]_vars

(* The closes of the trailing window: the last period + 1 closes, whose     *)
(* deltas are the most recent `period` deltas.                              *)
TrailingWindow(closes) == SubSeq(closes, Len(closes) - 14, Len(closes))

(* C26: with more than 15 closes the snapshot's RSI is the RSI of the most  *)
(* recent 14 deltas: the closes before the trailing window do not influence *)
(* it.                                                                      *)
C26_RsiTrailingWindow ==
    (/\ feed_last.op = "indicators"
     /\ Len(feed_last.closes) > 15
     /\ ~feed_last.snapshot.raised)
      => /\ feed_last.snapshot.rsi.present
         /\ feed_last.snapshot.rsi.v
               = _calculate_indicators(TrailingWindow(feed_last.closes)).rsi.v

(* C27: with fewer than 15 closes the RSI that goes into the advisory       *)
(* request is the default 50.                                               *)
C27_RsiDefault ==
    (/\ feed_last.op = "indicators"
     /\ Len(feed_last.closes) < 15
     /\ ~feed_last.snapshot.raised)
      => market_data_rsi(feed_last.snapshot) = <<50, 1>>

(* How often a call occurs among the calls observed *)
Count(calls, call) == Cardinality({k \in DOMAIN calls : calls[k] = call})

(* C28: in each cycle of the polling loop, for every configured pair that   *)
(* passes the cooldown and daily-limit gates an advisory analysis is        *)
(* requested and its decision is stored.                                    *)
C28_PollingCycle ==
    last.op = "monitor_and_trade" =>
        /\ Len(last.calls) >= Len(trading_pairs_list)
        /\ Count(last.calls, "analyze_market_data") = Count(last.calls, "pass")
        /\ Count(last.calls, "store_ai_decision") = Count(last.calls, "pass")

(* C29: a trade is counted on the date on which its order was placed: right *)
(* after a successful order for a symbol, the date stored with the symbol's *)
(* count is the current UTC date, the count includes the order, and so the  *)
(* next check of the daily limit on that date does not reset it.            *)
C29_CountOnStoredDate ==
    (last.op = "LLMRespond" /\ last.success) =>
        /\ daily_trades[last.symbol].date = Date(now)
        /\ daily_trades[last.symbol].count >= 1
        /\ has_reached_daily_limit(last.symbol).daily_trades[last.symbol].count
              = daily_trades[last.symbol].count

====
